---------------------------- MODULE Spec2Model ----------------------------
(***************************************************************************)
(* A model of apollo-music (src/main.rs): the catalog of tracks and        *)
(* playlists kept in SQLite, the scan of the music directory               *)
(* (index_library), the reconciliation of playlist files                   *)
(* (index_playlists, update_playlist_line) and the files on disk.          *)
(*                                                                         *)
(* Strings are sequences of one-character strings, so that trimming,       *)
(* splitting, path parsing and path comparison are computed as the Rust    *)
(* standard library computes them.  "abc" is <<"a","b","c">>.              *)
(***************************************************************************)
EXTENDS Integers, Sequences, FiniteSets, TLC

(***************************************************************************)
(* Strings                                                                 *)
(***************************************************************************)
SLASH == "/"
DOT == "."
SPACE == " "
HASH == "#"

\* s[a..b], empty when a > b
Sub(s, a, b) == IF a > b THEN << >> ELSE SubSeq(s, a, b)

StartsWith(s, pre) ==
    /\ Len(pre) <= Len(s)
    /\ Sub(s, 1, Len(pre)) = pre

RECURSIVE TrimStart(_)
TrimStart(s) ==
    IF s # << >> /\ Head(s) = SPACE THEN TrimStart(Tail(s)) ELSE s

RECURSIVE TrimEnd(_)
TrimEnd(s) ==
    IF s # << >> /\ s[Len(s)] = SPACE THEN TrimEnd(Sub(s, 1, Len(s) - 1)) ELSE s

\* str::trim
Trim(s) == TrimEnd(TrimStart(s))

\* the first index at which sep occurs in s, 0 when it does not
RECURSIVE FindFrom(_, _, _)
FindFrom(s, sep, i) ==
    IF i + Len(sep) - 1 > Len(s) THEN 0
    ELSE IF Sub(s, i, i + Len(sep) - 1) = sep THEN i
    ELSE FindFrom(s, sep, i + 1)

\* str::split(sep).collect(): the pieces of s between the occurrences of sep
RECURSIVE Split(_, _)
Split(s, sep) ==
    LET i == FindFrom(s, sep, 1)
    IN  IF i = 0 THEN << s >>
        ELSE << Sub(s, 1, i - 1) >> \o Split(Sub(s, i + Len(sep), Len(s)), sep)

\* [T]::join(sep)
RECURSIVE Join(_, _)
Join(parts, sep) ==
    IF parts = << >> THEN << >>
    ELSE IF Len(parts) = 1 THEN parts[1]
    ELSE parts[1] \o sep \o Join(Tail(parts), sep)

\* the last index of character c in s, 0 when there is none
RECURSIVE LastIndexOf(_, _)
LastIndexOf(s, c) ==
    IF s = << >> THEN 0
    ELSE IF s[Len(s)] = c THEN Len(s)
    ELSE LastIndexOf(Sub(s, 1, Len(s) - 1), c)

(***************************************************************************)
(* std::path::Path                                                         *)
(***************************************************************************)
CurDir == << DOT >>

\* Path::is_absolute (Unix): the text starts with the separator
IsAbsolute(p) == p # << >> /\ Head(p) = SLASH

\* Path::components: the text cut at separators; repeated separators and "."
\* are normalised away, except a "." that starts a relative path.
PathComponents(p) ==
    LET raw == Split(p, << SLASH >>)
        first == IF raw # << >> /\ raw[1] = CurDir /\ ~IsAbsolute(p)
                 THEN << CurDir >> ELSE << >>
    IN  [root |-> IsAbsolute(p),
         comps |-> first \o SelectSeq(raw, LAMBDA c : c # << >> /\ c # CurDir)]

\* Path == Path compares the components
PathEq(p, q) == PathComponents(p) = PathComponents(q)

\* The text of an absolute path made of the components cs
PathText(cs) == << SLASH >> \o Join(cs, << SLASH >>)

\* Components::as_path after a prefix was consumed: separators and "." at
\* either end of what is left are trimmed off.
RECURSIVE TrimLeftBody(_)
TrimLeftBody(p) ==
    IF p = << >> THEN p
    ELSE IF Head(p) = SLASH THEN TrimLeftBody(Tail(p))
    ELSE IF p = CurDir THEN << >>
    ELSE IF StartsWith(p, << DOT, SLASH >>) THEN TrimLeftBody(Sub(p, 3, Len(p)))
    ELSE p

RECURSIVE TrimRightBody(_)
TrimRightBody(p) ==
    IF p = << >> THEN p
    ELSE IF p[Len(p)] = SLASH THEN TrimRightBody(Sub(p, 1, Len(p) - 1))
    ELSE IF Len(p) >= 2 /\ Sub(p, Len(p) - 1, Len(p)) = << SLASH, DOT >>
         THEN TrimRightBody(Sub(p, 1, Len(p) - 2))
    ELSE p

\* the text of p after its first n components
RECURSIVE SkipComponents(_, _)
SkipComponents(p, n) ==
    LET q == TrimLeftBody(p)
        i == FindFrom(q, << SLASH >>, 1)
    IN  IF n = 0 THEN TrimRightBody(q)
        ELSE IF i = 0 THEN << >>
        ELSE SkipComponents(Sub(q, i, Len(q)), n - 1)

IsPrefixSeq(a, b) == Len(a) <= Len(b) /\ Sub(b, 1, Len(a)) = a

\* Path::strip_prefix(base).unwrap_or(p): p without the components of base
\* when p starts with them, else p itself.
StripPrefixOr(p, base) ==
    LET pc == PathComponents(p)
        bc == PathComponents(base)
    IN  IF pc.root = bc.root /\ IsPrefixSeq(bc.comps, pc.comps)
        THEN SkipComponents(p, Len(bc.comps))
        ELSE p

\* Path::join: an absolute argument replaces the base
PathJoin(base, p) ==
    IF IsAbsolute(p) THEN p
    ELSE IF base = << >> THEN p
    ELSE IF base[Len(base)] = SLASH THEN base \o p
    ELSE base \o << SLASH >> \o p

\* Path::file_name().unwrap_or(""): the last component
FileNameOr(p) ==
    LET cs == PathComponents(p).comps
    IN  IF cs = << >> \/ cs[Len(cs)] = CurDir THEN << >> ELSE cs[Len(cs)]

\* Path::parent().unwrap_or(""): the path without its last component
ParentOr(p) ==
    LET pc == PathComponents(p)
        n == Len(pc.comps)
    IN  IF n = 0 THEN << >>
        ELSE IF pc.root THEN PathText(Sub(pc.comps, 1, n - 1))
        ELSE Join(Sub(pc.comps, 1, n - 1), << SLASH >>)

NoExt == << "<none>" >>

\* the extension of a file name: what follows its last "."; none when the
\* name has no "." or only a leading one
ExtensionOfName(name) ==
    LET i == LastIndexOf(name, DOT)
    IN  IF i <= 1 THEN NoExt ELSE Sub(name, i + 1, Len(name))

\* Path::extension
Extension(p) == ExtensionOfName(FileNameOr(p))

\* the stem of a file name: the name without its extension
StemOfName(name) ==
    LET i == LastIndexOf(name, DOT)
    IN  IF i <= 1 THEN name ELSE Sub(name, 1, i - 1)

\* Path::file_stem
FileStem(p) == StemOfName(FileNameOr(p))


(***************************************************************************)
(* The model's universe: the music directory, the files that may be on     *)
(* disk, their tags, and the configured naming patterns.                   *)
(***************************************************************************)
\* music_directory of the configuration (an absolute path)
MusicDir == << "/", "m" >>

MP3 == << "m", "p", "3" >>
FLAC == << "f", "l", "a", "c" >>
WAV == << "w", "a", "v" >>
M3U == << "m", "3", "u" >>
M3U8 == << "m", "3", "u", "8" >>

\* the tags of a file as lofty returns them; a missing tag and a file lofty
\* cannot read both give empty strings
Meta(ar, al, aa, ti) == [artist |-> ar, album |-> al, albumartist |-> aa, title |-> ti]
NoTags == Meta(<< >>, << >>, << >>, << >>)

\* a file: its tags, the pieces of its text (see Lines) and the seconds the
\* symphonia probe finds in it (0: the probe fails)
File(tags, segs) == [tags |-> tags, segs |-> segs, secs |-> 0]

(***************************************************************************)
(* State                                                                   *)
(***************************************************************************)
VARIABLES
    fs,         \* the files on disk: path text -> File
    dirs,       \* the directories on disk: a set of path texts
    tracks,     \* table tracks, committed, in rowid order
    playlists,  \* table playlists, committed, in rowid order
    pc,         \* "idle", or "indexed" between index_library and index_playlists
    ops,        \* the runs of index_library and the changes of the user so far
    last        \* what the last operation did (a record, for the properties)

vars == << fs, dirs, tracks, playlists, pc, ops, last >>

(***************************************************************************)
(* The filesystem                                                          *)
(***************************************************************************)
Root == << SLASH >>

\* the absolute, normalised text the OS resolves p to
Resolve(p) ==
    PathText(SelectSeq(PathComponents(p).comps, LAMBDA c : c # CurDir))

\* Path::exists
Exists(f, d, p) == Resolve(p) \in DOMAIN f \/ Resolve(p) \in d

\* every ancestor directory of the path text p, the root included
Ancestors(p) ==
    LET cs == PathComponents(p).comps
    IN  { PathText(Sub(cs, 1, n)) : n \in 0 .. (Len(cs) - 1) }

\* std::fs::create_dir_all(parent): fails when a file is in the way
CanCreateDirs(f, parent) ==
    \A a \in Ancestors(parent) \cup { Resolve(parent) } : a \notin DOMAIN f

\* the directories after std::fs::create_dir_all(parent)
CreateDirAll(f, d, parent) ==
    IF CanCreateDirs(f, parent)
    THEN d \cup Ancestors(parent) \cup { Resolve(parent) }
    ELSE d

\* std::fs::rename(src, dst) succeeds: src is a file, dst is in a directory
\* and is not itself a directory; an existing file at dst is replaced
CanRename(f, d, src, dst) ==
    /\ Resolve(src) \in DOMAIN f
    /\ Resolve(dst) \notin d
    /\ Resolve(ParentOr(dst)) \in d

Rename(f, src, dst) ==
    LET s == Resolve(src)
        t == Resolve(dst)
    IN  [ p \in (DOMAIN f \ { s }) \cup { t } |-> IF p = t THEN f[s] ELSE f[p] ]

Under(p, dir) ==
    IsPrefixSeq(PathComponents(dir).comps, PathComponents(p).comps)

\* the orders in which a set can be enumerated
RECURSIVE Orders(_)
Orders(S) ==
    IF S = { } THEN { << >> }
    ELSE UNION { { << x >> \o o : o \in Orders(S \ { x }) } : x \in S }

\* WalkDir::new(music_dir) filtered to files: the regular files under the
\* directory, in the order the OS lists them
WalkOrders(f) == Orders({ p \in DOMAIN f : Under(p, MusicDir) })

(***************************************************************************)
(* The catalog                                                             *)
(***************************************************************************)
HasPath(table, p) == \E i \in 1 .. Len(table) : table[i].path = p

\* the rows of a table, and those of them with the path p
Rows(table) == { table[i] : i \in 1 .. Len(table) }

RowsAt(table, p) == SelectSeq(table, LAMBDA r : r.path = p)

\* DELETE FROM tracks/playlists WHERE path = ?1, for every selected path that
\* is not on disk
PruneMissing(table, f, d) ==
    SelectSeq(table, LAMBDA r : Exists(f, d, r.path))

\* INSERT OR IGNORE INTO tracks (path, artist, album, albumartist, title,
\* duration) VALUES (?1 .. ?6) with the parameters bound in the order
\* path_str, artist, albumartist, album, title, 0.0
InsertValues(path_str, artist, albumartist, album, title) ==
    [path |-> path_str, artist |-> artist, album |-> albumartist,
     albumartist |-> album, title |-> title, duration |-> 0]

\* INSERT with no conflict clause on a table without the UNIQUE constraint
InsertAlways(table, row) == Append(table, row)

\* INSERT OR REPLACE: a row with the same path is deleted and the new one added
InsertOrReplace(table, row) ==
    Append(SelectSeq(table, LAMBDA r : r.path # row.path), row)

\* INSERT OR IGNORE: path is UNIQUE, a row with the same path is left as it is
InsertOrIgnore(table, row) ==
    IF HasPath(table, row.path) THEN table ELSE Append(table, row)

(***************************************************************************)
(* generate_path_from_pattern                                              *)
(***************************************************************************)
\* a placeholder is one element of the pattern's text
PhArtist == "{artist}"
PhAlbumArtist == "{albumartist}"
PhAlbum == "{album}"
PhTitle == "{title}"
PhExt == "{ext}"

\* str::replace(from, to) for a one-element from
RECURSIVE Replace(_, _, _)
Replace(s, from, to) ==
    IF s = << >> THEN << >>
    ELSE (IF Head(s) = from THEN to ELSE << Head(s) >>) \o Replace(Tail(s), from, to)

generate_path_from_pattern(pattern, artist, album, title, ext) ==
    Replace(Replace(Replace(Replace(Replace(pattern,
        PhArtist, artist), PhAlbumArtist, artist), PhAlbum, album),
        PhTitle, title), PhExt, ext)

NoPattern == << "<none>" >>

(***************************************************************************)
(* index_library                                                           *)
(***************************************************************************)
AudioExts == { MP3, FLAC, WAV }

\* tx.execute(INSERT OR IGNORE ...) for the entry path, recorded under
\* path_str; renamed: the entry was moved to new_abs_path
UpsertEntry(st, path, tags, path_str, new_abs_path, moving, renamed, dirs1) ==
    [fs |-> IF renamed THEN Rename(st.fs, path, new_abs_path) ELSE st.fs,
     dirs |-> dirs1,
     tx |-> InsertOrIgnore(st.tx,
                InsertValues(path_str, tags.artist, tags.albumartist,
                             tags.album, tags.title)),
     log |-> Append(st.log,
                [entry |-> path, path |-> path_str, tags |-> tags,
                 existed |-> HasPath(st.tx, path_str),
                 before |-> RowsAt(st.tx, path_str),
                 moved |-> renamed, wanted |-> moving])]

\* the move of the entry to new_abs_path; differs: new_abs_path != path
MoveEntry(st, path, tags, new_abs_path, differs, moving, deny, dirs1) ==
    UpsertEntry(st, path, tags,
                IF differs THEN new_abs_path ELSE path,
                new_abs_path, moving,
                /\ moving
                /\ path \notin deny
                /\ CanRename(st.fs, dirs1, path, new_abs_path),
                dirs1)

\* the entry, were the dry-run flag not looked at before the move
PlaceEntryAlways(st, path, tags, new_abs_path, differs, dry_run, deny) ==
    MoveEntry(st, path, tags, new_abs_path, differs, differs, deny,
              IF differs
              THEN CreateDirAll(st.fs, st.dirs, ParentOr(new_abs_path))
              ELSE st.dirs)

\* an audio entry whose canonical path is new_abs_path
PlaceEntry(st, path, tags, new_abs_path, differs, dry_run, deny) ==
    MoveEntry(st, path, tags, new_abs_path, differs, differs /\ ~dry_run, deny,
              IF differs /\ ~dry_run
              THEN CreateDirAll(st.fs, st.dirs, ParentOr(new_abs_path))
              ELSE st.dirs)

\* an audio entry with its tags and its canonical path
AudioEntry(st, path, tags, new_abs_path, pattern, dry_run, deny) ==
    PlaceEntry(st, path, tags, new_abs_path,
               pattern # NoPattern /\ ~PathEq(new_abs_path, path),
               dry_run, deny)

\* the tags lofty reads at path
TagsAt(f, path) == IF path \in DOMAIN f THEN f[path].tags ELSE NoTags

\* One walked entry of index_library.  st: the disk, the transaction's table
\* and the log of the upserts.  deny: the entries whose rename the OS refuses.
TaggedEntry(st, path, tags, ext, pattern, dry_run, deny) ==
    IF ext \notin AudioExts THEN st
    ELSE AudioEntry(st, path, tags,
                    PathJoin(MusicDir,
                        generate_path_from_pattern(pattern, tags.artist,
                                                   tags.album, tags.title, ext)),
                    pattern, dry_run, deny)

ScanEntry(st, path, pattern, dry_run, deny) ==
    TaggedEntry(st, path, TagsAt(st.fs, path), Extension(path), pattern,
                dry_run, deny)

RECURSIVE ScanEntries(_, _, _, _, _)
ScanEntries(st, entries, pattern, dry_run, deny) ==
    IF entries = << >> THEN st
    ELSE ScanEntries(ScanEntry(st, Head(entries), pattern, dry_run, deny),
                     Tail(entries), pattern, dry_run, deny)

\* The body of index_library up to the commit: prune the rows whose path is
\* not on disk, then visit every walked entry.
ScanPass(f, d, table, entries, pattern, dry_run, deny) ==
    ScanEntries([fs |-> f, dirs |-> d, tx |-> PruneMissing(table, f, d),
                 log |-> << >>],
                entries, pattern, dry_run, deny)

(***************************************************************************)
(* Text files.  A file's text is kept as the pieces between its newline    *)
(* characters: "a\nb\n" is << "a", "b", "" >> and the empty file is        *)
(* << "" >>.                                                               *)
(***************************************************************************)
\* str::lines: the pieces, without the empty piece after a final newline
Lines(segs) ==
    IF segs # << >> /\ segs[Len(segs)] = << >>
    THEN Sub(segs, 1, Len(segs) - 1) ELSE segs

\* the pieces of new_lines.join("\n")
JoinedLines(new_lines) ==
    IF new_lines = << >> THEN << << >> >> ELSE new_lines

(***************************************************************************)
(* update_playlist_line                                                    *)
(***************************************************************************)
\* line i of the playlist has the target's form relative to the playlist's
\* directory
LineMatches(line, playlist_dir, target_rel) ==
    PathEq(StripPrefixOr(Trim(line), playlist_dir), target_rel)

\* the index of the last line with the target's form, 0 when there is none
RECURSIVE LastMatch(_, _, _, _)
LastMatch(lines, playlist_dir, target_rel, i) ==
    LET later == IF i > Len(lines) THEN 0
                 ELSE LastMatch(lines, playlist_dir, target_rel, i + 1)
    IN  IF i > Len(lines) THEN 0
        ELSE IF later # 0 THEN later
        ELSE IF LineMatches(lines[i], playlist_dir, target_rel) THEN i
        ELSE 0

\* the index of the first line with the target's form, 0 when there is none
RECURSIVE FirstMatch(_, _, _, _)
FirstMatch(lines, playlist_dir, target_rel, i) ==
    IF i > Len(lines) THEN 0
    ELSE IF LineMatches(lines[i], playlist_dir, target_rel) THEN i
    ELSE FirstMatch(lines, playlist_dir, target_rel, i + 1)

\* The result of the rewriting: the file's new pieces, whether the file was
\* written, whether the warning was printed, whether Ok(()) was returned and
\* the line replaced.  Were the new line added at the end of the file when no
\* line has the target's form:
ReplaceOrAppend(segs, lines, hit, new_rel) ==
    IF hit = 0
    THEN [segs |-> JoinedLines(Append(lines, new_rel)), wrote |-> TRUE,
          warned |-> TRUE, ok |-> TRUE, hit |-> 0]
    ELSE [segs |-> JoinedLines([ i \in 1 .. Len(lines) |->
                                   IF i = hit THEN new_rel ELSE lines[i] ]),
          wrote |-> TRUE, warned |-> FALSE, ok |-> TRUE, hit |-> hit]

\* line hit is replaced by new_rel and the file is written; with no hit the
\* warning is printed and the file is left as it is
ReplaceAt(segs, lines, hit, new_rel) ==
    IF hit = 0
    THEN [segs |-> segs, wrote |-> FALSE, warned |-> TRUE, ok |-> TRUE, hit |-> 0]
    ELSE [segs |-> JoinedLines([ i \in 1 .. Len(lines) |->
                                   IF i = hit THEN new_rel ELSE lines[i] ]),
          wrote |-> TRUE, warned |-> FALSE, ok |-> TRUE, hit |-> hit]

\* the loop over the lines of the file that was read
RewriteLines(segs, lines, playlist_dir, target_line, new_line) ==
    ReplaceAt(segs, lines,
              FirstMatch(lines, playlist_dir,
                         StripPrefixOr(target_line, playlist_dir), 1),
              StripPrefixOr(new_line, playlist_dir))

\* the result of a call that could not read the file
NotRead(segs) ==
    [segs |-> segs, wrote |-> FALSE, warned |-> FALSE, ok |-> FALSE, hit |-> 0]

\* update_playlist_line on the disk f.  io_error: the read of the file fails.
update_playlist_line(f, playlist_path, target_line, new_line, io_error) ==
    IF playlist_path \notin DOMAIN f THEN NotRead(<< >>)
    ELSE IF io_error THEN NotRead(f[playlist_path].segs)
    ELSE RewriteLines(f[playlist_path].segs, Lines(f[playlist_path].segs),
                      ParentOr(playlist_path), target_line, new_line)

(***************************************************************************)
(* strsim::jaro, on exact fractions: a score is [num, den] with den > 0    *)
(***************************************************************************)
Max(a, b) == IF a >= b THEN a ELSE b
Min(a, b) == IF a <= b THEN a ELSE b

\* the first unflagged j in lo .. hi with b[j] = c, 0 when there is none
RECURSIVE JaroFind(_, _, _, _, _)
JaroFind(b, c, flagged, lo, hi) ==
    IF lo > hi THEN 0
    ELSE IF b[lo] = c /\ lo \notin flagged THEN lo
    ELSE JaroFind(b, c, flagged, lo + 1, hi)

\* the matching pass: the flagged positions of a and of b
RECURSIVE JaroFlags(_, _, _, _, _, _)
JaroFlags(a, b, range, i, aflags, bflags) ==
    IF i > Len(a) THEN [a |-> aflags, b |-> bflags]
    ELSE LET j == JaroFind(b, a[i], bflags, Max(1, i - range),
                           Min(Len(b), i + range))
         IN  IF j = 0 THEN JaroFlags(a, b, range, i + 1, aflags, bflags)
             ELSE JaroFlags(a, b, range, i + 1, aflags \cup { i }, bflags \cup { j })

\* the flagged characters of s, in order
Flagged(s, flags) ==
    LET F[i \in 0 .. Len(s)] ==
            IF i = 0 THEN << >>
            ELSE IF i \in flags THEN Append(F[i - 1], s[i]) ELSE F[i - 1]
    IN  F[Len(s)]

jaro(a, b) ==
    LET range == Max(Max(Len(a), Len(b)) \div 2 - 1, 0)
        fl == JaroFlags(a, b, range, 1, { }, { })
        m == Cardinality(fl.a)
        am == Flagged(a, fl.a)
        bm == Flagged(b, fl.b)
        t == Cardinality({ k \in 1 .. m : am[k] # bm[k] }) \div 2
    IN  IF Len(a) = 0 /\ Len(b) = 0 THEN [num |-> 1, den |-> 1]
        ELSE IF Len(a) = 0 \/ Len(b) = 0 \/ m = 0 THEN [num |-> 0, den |-> 1]
        ELSE [num |-> m * m * Len(b) + m * m * Len(a) + (m - t) * Len(a) * Len(b),
              den |-> 3 * Len(a) * Len(b) * m]

\* x >= y and x > y on scores
ScoreGe(x, y) == x.num * y.den >= y.num * x.den
ScoreGt(x, y) == x.num * y.den > y.num * x.den

\* the auto-replace threshold 0.9
Threshold == [num |-> 9, den |-> 10]

(***************************************************************************)
(* index_playlists                                                         *)
(***************************************************************************)
PlaylistExts == { M3U, M3U8 }

DashSep == << SPACE, "-", SPACE >>
\* the separator written with the full-width hyphen-minus (one character)
WideDashSep == << SPACE, "fullwidth-hyphen", SPACE >>

NoName == << "<none>" >>

\* the second piece of the file stem cut at " - " (or at the full-width
\* variant), none when the stem has no separator
SongNameOfStem(file_stem) ==
    LET parts1 == Split(file_stem, DashSep)
        parts2 == Split(file_stem, WideDashSep)
    IN  IF Len(parts1) > 1 THEN parts1[2]
        ELSE IF Len(parts2) > 1 THEN parts2[2]
        ELSE NoName

\* extract_song_name_from_filename
extract_song_name_from_filename(filename) ==
    IF FileNameOr(filename) = << >> THEN NoName
    ELSE SongNameOfStem(FileStem(filename))

\* the number of suggestions kept
MaxSuggestions == 5

\* Were the sort to place a suggestion before those of equal score:
RECURSIVE InsertBeforeEqual(_, _)
InsertBeforeEqual(sorted, x) ==
    IF sorted = << >> THEN << x >>
    ELSE IF ScoreGe(x.score, Head(sorted).score) THEN << x >> \o sorted
    ELSE << Head(sorted) >> \o InsertBeforeEqual(Tail(sorted), x)

\* slice::sort_by with b.0.partial_cmp(&a.0): a stable sort, descending score
RECURSIVE InsertByScore(_, _)
InsertByScore(sorted, x) ==
    IF sorted = << >> THEN << x >>
    ELSE IF ScoreGt(x.score, Head(sorted).score) THEN << x >> \o sorted
    ELSE << Head(sorted) >> \o InsertByScore(Tail(sorted), x)

RECURSIVE SortByScore(_)
SortByScore(xs) ==
    IF xs = << >> THEN << >>
    ELSE InsertByScore(SortByScore(Sub(xs, 1, Len(xs) - 1)), xs[Len(xs)])

\* SELECT title, path FROM tracks, each row scored against the song name,
\* sorted and cut to the first MaxSuggestions
TopSuggestions(catalog, song_name) ==
    LET suggestions == [ i \in 1 .. Len(catalog) |->
                           [score |-> jaro(catalog[i].title, song_name),
                            path |-> catalog[i].path] ]
        sorted == SortByScore(suggestions)
    IN  Sub(sorted, 1, Min(MaxSuggestions, Len(sorted)))

\* what the prompt returns: a suggestion (its index), "Remove", "Skip", or
\* "Cancel" for Err (no answer)
Pick(i) == [kind |-> "Pick", i |-> i]
Remove == [kind |-> "Remove", i |-> 0]
Skip == [kind |-> "Skip", i |-> 0]
Cancel == [kind |-> "Cancel", i |-> 0]
IsPick(d) == d.kind = "Pick"

\* the path cut out of the selected option "(score) path "
SelectedPath(suggestion) ==
    Trim(<< SPACE >> \o suggestion.path \o << SPACE >>)

\* st with the file at path holding the pieces segs
WithSegs(f, path, segs) == [ f EXCEPT ![path] = [ @ EXCEPT !.segs = segs ] ]

\* the line is left as it is and reported: nothing to suggest
Unresolved(st, ref) ==
    [st EXCEPT !.unresolved = Append(@, [playlist |-> ref.playlist,
                                         idx |-> ref.idx, line |-> ref.line])]

\* the result of no call of update_playlist_line
NotCalled(segs) ==
    [segs |-> segs, wrote |-> FALSE, warned |-> FALSE, ok |-> TRUE, hit |-> 0]

\* the end of the iteration: res is what update_playlist_line returned
ReconcileUpdate(st, ref, song_name, top, auto, answer, new_line, updating, res) ==
    [st EXCEPT
        !.fs = IF res.wrote THEN WithSegs(st.fs, ref.playlist, res.segs) ELSE @,
        !.decs = IF auto \/ st.decs = << >> THEN @ ELSE Tail(@),
        !.calls = IF updating THEN @ + 1 ELSE @,
        !.panicked = ~res.ok /\ (auto \/ IsPick(answer)),
        !.events = Append(@,
            [playlist |-> ref.playlist, idx |-> ref.idx, line |-> ref.line,
             target |-> ref.target, song_name |-> song_name,
             top |-> top, auto |-> auto, prompted |-> ~auto,
             answer |-> IF auto THEN "none" ELSE answer.kind,
             new_line |-> new_line,
             before |-> st.fs[ref.playlist].segs,
             after |-> res.segs,
             hit |-> res.hit,
             wrote |-> res.wrote,
             warned |-> res.warned,
             failed |-> ~res.ok])]

\* Were every answer to the prompt followed by the rewriting of the line:
ReconcileAlways(st, ref, song_name, top, auto, answer, new_line, updating, fail_at) ==
    ReconcileUpdate(st, ref, song_name, top, auto, answer, new_line, TRUE,
        update_playlist_line(st.fs, ref.playlist, ref.target, new_line,
                             st.calls + 1 = fail_at))

\* the decision on a broken reference: the automatic replacement, or the
\* answer to the prompt
ReconcileDecision(st, ref, song_name, top, auto, answer, new_line, updating, fail_at) ==
    ReconcileUpdate(st, ref, song_name, top, auto, answer, new_line, updating,
        IF updating
        THEN update_playlist_line(st.fs, ref.playlist, ref.target, new_line,
                                  st.calls + 1 = fail_at)
        ELSE NotCalled(st.fs[ref.playlist].segs))

\* a broken reference with the suggestions the catalog has for it
ReconcileSuggested(st, ref, song_name, top_suggestions, answer, fail_at) ==
    LET top == top_suggestions[1]
        auto == ScoreGe(top.score, Threshold)
    IN  IF top_suggestions = << >> THEN Unresolved(st, ref)
        ELSE IF ~auto /\ IsPick(answer) /\ answer.i > Len(top_suggestions)
        THEN [st EXCEPT !.invalid = TRUE]
        ELSE ReconcileDecision(st, ref, song_name, top, auto, answer,
                IF auto THEN top.path
                ELSE IF IsPick(answer) THEN SelectedPath(top_suggestions[answer.i])
                ELSE << >>,
                auto \/ IsPick(answer) \/ answer = Remove,
                fail_at)

\* a broken reference and the song name searched for
ReconcileNamed(st, ref, song_name, catalog, fail_at) ==
    ReconcileSuggested(st, ref, song_name, TopSuggestions(catalog, song_name),
                       IF st.decs = << >> THEN Cancel ELSE Head(st.decs),
                       fail_at)

\* the song name: the one extracted, or else the file name
SongNameOr(extracted, song_file_name) ==
    IF extracted = NoName THEN song_file_name ELSE extracted

\* a reference to a file that does not exist
ReconcileBroken(st, ref, song_file_name, catalog, fail_at) ==
    IF song_file_name = << >> THEN Unresolved(st, ref)
    ELSE ReconcileNamed(st, ref,
            SongNameOr(extract_song_name_from_filename(song_file_name),
                       song_file_name),
            catalog, fail_at)

\* a line that names a song: ref.target is the path it resolves to
ReconcileSong(st, ref, catalog, fail_at) ==
    IF Exists(st.fs, st.dirs, ref.target) THEN st
    ELSE ReconcileBroken(st, ref, FileNameOr(ref.target), catalog, fail_at)

\* a line of the playlist, trimmed
ReconcileTrimmed(st, playlist_path, idx, line, trimmed, catalog, fail_at) ==
    IF trimmed = << >> \/ StartsWith(trimmed, << HASH >>) THEN st
    ELSE ReconcileSong(st,
            [playlist |-> playlist_path, idx |-> idx, line |-> line,
             target |-> IF IsAbsolute(trimmed) THEN trimmed
                        ELSE PathJoin(ParentOr(playlist_path), trimmed)],
            catalog, fail_at)

\* One line of a playlist.  st: the disk, the prompt answers not yet used, the
\* number of update_playlist_line calls made, whether the pass has panicked,
\* and the log of the broken references seen.  fail_at is the number of the
\* update_playlist_line call whose read of the file fails (0: none).
ReconcileLine(st, playlist_path, idx, line, catalog, fail_at) ==
    IF st.panicked \/ st.invalid THEN st
    ELSE ReconcileTrimmed(st, playlist_path, idx, line, Trim(line), catalog,
                          fail_at)

RECURSIVE ReconcileLines(_, _, _, _, _, _)
ReconcileLines(st, playlist_path, lines, idx, catalog, fail_at) ==
    IF idx > Len(lines) THEN st
    ELSE ReconcileLines(
            ReconcileLine(st, playlist_path, idx, lines[idx], catalog, fail_at),
            playlist_path, lines, idx + 1, catalog, fail_at)

\* One walked entry: a playlist file is upserted and its lines, as read once
\* before the loop, are reconciled.
ReconcileEntry(st, path, catalog, fail_at) ==
    IF st.panicked \/ Extension(path) \notin PlaylistExts THEN st
    ELSE ReconcileLines(
            [st EXCEPT !.tx = InsertOrIgnore(@, [name |-> FileStem(path),
                                                 path |-> path])],
            path, Lines(st.fs[path].segs), 1, catalog, fail_at)

RECURSIVE ReconcileEntries(_, _, _, _)
ReconcileEntries(st, entries, catalog, fail_at) ==
    IF entries = << >> THEN st
    ELSE ReconcileEntries(ReconcileEntry(st, Head(entries), catalog, fail_at),
                          Tail(entries), catalog, fail_at)

\* The body of index_playlists up to the commit.
ReconcilePass(f, d, table, catalog, entries, decs, fail_at) ==
    ReconcileEntries([fs |-> f, dirs |-> d, tx |-> PruneMissing(table, f, d),
                      decs |-> decs, calls |-> 0, panicked |-> FALSE,
                      invalid |-> FALSE, events |-> << >>, unresolved |-> << >>],
                     entries, catalog, fail_at)

(***************************************************************************)
(* find_duplicates                                                         *)
(***************************************************************************)
M4A == << "m", "4", "a" >>
COMMA == ","

\* the columns of GROUP BY artist, title
DupKey(r) == [artist |-> r.artist, title |-> r.title]

\* SELECT ... FROM tracks WHERE artist = ?1 AND title = ?2, in rowid order
Members(table, key) == SelectSeq(table, LAMBDA r : DupKey(r) = key)

\* the groups of the query, were its WHERE clause left out
DupKeysAll(table) ==
    { DupKey(r) : r \in { x \in Rows(table) :
                            Len(Members(table, DupKey(x))) > 1 } }

\* SELECT artist, title, COUNT(*) FROM tracks WHERE artist != '' AND
\* title != '' GROUP BY artist, title HAVING count > 1
DupKeys(table) ==
    { DupKey(r) : r \in { x \in Rows(table) :
                            /\ x.artist # << >>
                            /\ x.title # << >>
                            /\ Len(Members(table, DupKey(x))) > 1 } }

PathsOf(rows) == [ i \in 1 .. Len(rows) |-> rows[i].path ]

\* std::fs::remove_file(path) succeeds; undeletable: the files the OS
\* refuses to delete
CanRemove(f, path, undeletable) ==
    Resolve(path) \in DOMAIN f /\ Resolve(path) \notin undeletable

RemoveFile(f, path) == [ q \in DOMAIN f \ { Resolve(path) } |-> f[q] ]

\* what the prompt of find_duplicates returns besides "Skip": a path to keep
Keep(path) == [kind |-> "Keep", path |-> path]

\* the removal of one member, were a failed deletion of its file to end the
\* run
RemoveOrPanic(st, path, undeletable, fail_at) ==
    IF st.fatal # "none" THEN st
    ELSE IF st.execs + 1 = fail_at
    THEN [st EXCEPT !.execs = @ + 1, !.fatal = "store"]
    ELSE IF ~CanRemove(st.fs, path, undeletable)
    THEN [st EXCEPT !.execs = @ + 1,
                    !.tx = SelectSeq(@, LAMBDA r : r.path # path),
                    !.removed = Append(@, path),
                    !.fatal = "file"]
    ELSE [st EXCEPT !.execs = @ + 1,
                    !.tx = SelectSeq(@, LAMBDA r : r.path # path),
                    !.fs = RemoveFile(@, path),
                    !.removed = Append(@, path)]

\* The removal of one member that was not selected: DELETE FROM tracks WHERE
\* id = ?1, then remove_file.  fail_at: the DELETE statement of the run that
\* the store fails (0: none); the run panics there.
RemoveDuplicate(st, path, undeletable, fail_at) ==
    IF st.fatal # "none" THEN st
    ELSE IF st.execs + 1 = fail_at
    THEN [st EXCEPT !.execs = @ + 1, !.fatal = "store"]
    ELSE [st EXCEPT !.execs = @ + 1,
                    !.tx = SelectSeq(@, LAMBDA r : r.path # path),
                    !.fs = IF CanRemove(@, path, undeletable)
                           THEN RemoveFile(@, path) ELSE @,
                    !.removed = Append(@, path),
                    !.failed = IF CanRemove(st.fs, path, undeletable)
                               THEN @ ELSE Append(@, path)]

\* for (id, path) in &paths { if path != &selected { ... } }
RECURSIVE RemoveOthers(_, _, _, _, _)
RemoveOthers(st, paths, selected, undeletable, fail_at) ==
    IF paths = << >> THEN st
    ELSE RemoveOthers(IF Head(paths) # selected
                      THEN RemoveDuplicate(st, Head(paths), undeletable, fail_at)
                      ELSE st,
                      Tail(paths), selected, undeletable, fail_at)

\* one group of the first query with the paths of its members as printed
FixPaths(st, key, paths, fix, answer, undeletable, fail_at) ==
    IF fix /\ Len(paths) > 1 /\ answer.kind = "Keep"
    THEN RemoveOthers([st EXCEPT !.groups = Append(@,
                          [key |-> key, paths |-> paths, kept |-> answer.path])],
                      paths, answer.path, undeletable, fail_at)
    ELSE [st EXCEPT !.groups = Append(@,
              [key |-> key, paths |-> paths, kept |-> << >>])]

FixGroup(st, key, fix, answer, undeletable, fail_at) ==
    IF st.fatal # "none" THEN st
    ELSE FixPaths(st, key, PathsOf(Members(st.tx, key)), fix, answer,
                  undeletable, fail_at)

\* the loop over the rows of the first query, which come in the order keys
RECURSIVE FixGroups(_, _, _, _, _, _)
FixGroups(st, keys, fix, decs, undeletable, fail_at) ==
    IF keys = << >> THEN st
    ELSE FixGroups(FixGroup(st, Head(keys), fix, decs[Head(keys)], undeletable,
                            fail_at),
                   Tail(keys), fix, decs, undeletable, fail_at)

\* str::to_lowercase on the letters of the extensions
LowerChar(c) ==
    IF c = "F" THEN "f" ELSE IF c = "L" THEN "l" ELSE IF c = "A" THEN "a"
    ELSE IF c = "C" THEN "c" ELSE IF c = "M" THEN "m" ELSE IF c = "P" THEN "p"
    ELSE c

to_lowercase(s) == [ i \in 1 .. Len(s) |-> LowerChar(s[i]) ]

quality_rank(ext) ==
    IF to_lowercase(ext) = FLAC THEN 1
    ELSE IF to_lowercase(ext) = M4A THEN 2
    ELSE IF to_lowercase(ext) = MP3 THEN 3
    ELSE 100

QualityLabel(rank) ==
    IF rank = 1 THEN "FLAC" ELSE IF rank = 2 THEN "M4A"
    ELSE IF rank = 3 THEN "MP3" ELSE "OTHER"

\* GROUP_CONCAT(path) of a group, split at the commas
ConcatFiles(rows) == Split(Join(PathsOf(rows), << COMMA >>), << COMMA >>)

\* files.iter().filter_map(...): the files that have an extension, ranked
Ranked(files) ==
    [ i \in 1 .. Len(files) |->
        [rank |-> quality_rank(Extension(files[i])), path |-> files[i]] ]

Qualities(files) == Ranked(SelectSeq(files, LAMBDA p : Extension(p) # NoExt))

\* slice::sort_by_key(|q| q.0): a stable sort, ascending rank
RECURSIVE InsertByRank(_, _)
InsertByRank(sorted, x) ==
    IF sorted = << >> THEN << x >>
    ELSE IF x.rank < Head(sorted).rank THEN << x >> \o sorted
    ELSE << Head(sorted) >> \o InsertByRank(Tail(sorted), x)

RECURSIVE SortByRank(_)
SortByRank(xs) ==
    IF xs = << >> THEN << >>
    ELSE InsertByRank(SortByRank(Sub(xs, 1, Len(xs) - 1)), xs[Len(xs)])

\* what is printed for one group of the second query, if anything
QualityListing(key, qualities) ==
    IF Len(qualities) > 1 /\ qualities[1].rank < qualities[2].rank
    THEN { [key |-> key,
            files |-> [ i \in 1 .. Len(qualities) |->
                          [label |-> QualityLabel(qualities[i].rank),
                           path |-> qualities[i].path] ]] }
    ELSE { }

QualityGroup(table, key) ==
    QualityListing(key, SortByRank(Qualities(ConcatFiles(Members(table, key)))))

\* the second pass, were it to delete the records listed after the best one
\* when fix is set
QualityFixing(st, fix) ==
    [st EXCEPT
        !.quality = UNION { QualityGroup(st.tx, k) : k \in DupKeys(st.tx) },
        !.tx = IF fix
               THEN SelectSeq(@, LAMBDA r :
                        \A g \in UNION { QualityGroup(st.tx, k) : k \in DupKeys(st.tx) } :
                            \A i \in 2 .. Len(g.files) : g.files[i].path # r.path)
               ELSE @]

\* The second pass of find_duplicates: the groups with a member of lower
\* quality are printed.
QualityReport(st, fix) ==
    [st EXCEPT
        !.quality = UNION { QualityGroup(st.tx, k) : k \in DupKeys(st.tx) }]

\* the run of find_duplicates after its first pass
DuplicateEnd(exact, fix) ==
    [exact |-> exact,
     final |-> IF exact.fatal # "none" THEN exact ELSE QualityReport(exact, fix)]

\* find_duplicates(db_path, fix) on the table and the disk f
DuplicatePass(table, f, keys, fix, decs, undeletable, fail_at) ==
    DuplicateEnd(
        FixGroups([tx |-> table, fs |-> f, execs |-> 0, fatal |-> "none",
                   groups |-> << >>, removed |-> << >>, failed |-> << >>,
                   quality |-> { }],
                  keys, fix, decs, undeletable, fail_at),
        fix)

(***************************************************************************)
(* get_stats                                                               *)
(***************************************************************************)
\* get_duration_with_symphonia(path): 0 when the file cannot be opened or
\* probed
get_duration_with_symphonia(f, path) ==
    IF Resolve(path) \in DOMAIN f THEN f[Resolve(path)].secs ELSE 0

\* Were the rows selected whatever their duration:
BackfillAny(st, i, duration, fail_at) ==
    IF st.fatal # "none" \/ duration <= 0 THEN st
    ELSE IF st.execs + 1 = fail_at
    THEN [st EXCEPT !.execs = @ + 1, !.fatal = "store"]
    ELSE [st EXCEPT !.execs = @ + 1,
                    !.tx = [ @ EXCEPT ![i] = [ @ EXCEPT !.duration = duration ] ]]

\* UPDATE tracks SET duration = ?1 WHERE id = ?2, for a row whose duration
\* is 0 and whose probe is positive
BackfillRow(st, i, duration, fail_at) ==
    IF st.fatal # "none" \/ st.tx[i].duration # 0 \/ duration <= 0 THEN st
    ELSE IF st.execs + 1 = fail_at
    THEN [st EXCEPT !.execs = @ + 1, !.fatal = "store"]
    ELSE [st EXCEPT !.execs = @ + 1,
                    !.tx = [ @ EXCEPT ![i] = [ @ EXCEPT !.duration = duration ] ]]

RECURSIVE Backfill(_, _, _, _)
Backfill(st, i, f, fail_at) ==
    IF i > Len(st.tx) THEN st
    ELSE Backfill(BackfillRow(st, i,
                      get_duration_with_symphonia(f, st.tx[i].path), fail_at),
                  i + 1, f, fail_at)

RECURSIVE SumDuration(_)
SumDuration(table) ==
    IF table = << >> THEN 0
    ELSE Head(table).duration + SumDuration(Tail(table))

\* the totals printed at the end
StatsTotals(st) ==
    [st EXCEPT !.total_duration = SumDuration(st.tx)]

\* get_stats(music_dir, db_path) on the table and the disk f
StatsPass(table, f, fail_at) ==
    StatsTotals(
        Backfill([tx |-> table, execs |-> 0, fatal |-> "none",
                  total_tracks |-> Len(table),
                  total_artists |-> Cardinality({ r.artist : r \in Rows(table) }),
                  total_albums |-> Cardinality({ r.album : r \in Rows(table) }),
                  total_duration |-> 0],
                 1, f, fail_at))

(***************************************************************************)
(* The bounded universe of the check                                       *)
(***************************************************************************)
\* the runs of the Index command (index_library, then index_playlists)
MaxPasses == 2
\* the changes the user makes to the disk between two runs
MaxChanges == 1
\* the longest playlist of an initial disk of SpecPl and SpecAuto, in lines
MaxLines == 2
\* the runs of the Index command in which the prompts are answered
MaxAnswered == 1
\* the latest call of update_playlist_line of a pass that may fail
MaxFailAt == 1
\* the runs of the Index command before the reports of SpecDup
MaxScans == 1
\* the runs of the Dupes and Stats commands
MaxReports == 1
\* the runs of the Stats command of SpecStats
MaxStats == 2

TitleAbc == << "a", "b", "c" >>
TitleAb == << "a", "b" >>
TagsA == Meta(<< "A" >>, << "L" >>, << "V" >>, TitleAbc)
TagsB == Meta(<< "B" >>, << >>, << "W" >>, TitleAb)
TagChoices == { TagsA, TagsB }

\* /m/x.mp3 and /m/abc.mp3, the audio files there may be
FileX == << "/", "m", "/", "x", ".", "m", "p", "3" >>
FileAbc == << "/", "m", "/", "a", "b", "c", ".", "m", "p", "3" >>
AudioFiles == { FileX, FileAbc }

\* /m/p.m3u, the playlist there may be
PlaylistP == << "/", "m", "/", "p", ".", "m", "3", "u" >>

\* the lines a playlist may start with
LineRel == << "x", ".", "m", "p", "3" >>
LineAbs == FileX
LineGone == << "k", " ", "-", " ", "a", "b", "c", "d", ".", "m", "p", "3" >>
LineDotGone == << ".", "/" >> \o LineGone
LineComment == << "#", "c" >>
LineChoices == { LineRel, LineAbs, LineGone, LineDotGone, LineComment }

\* "{title}.{ext}", the naming pattern that may be configured
PatternTitle == << PhTitle, ".", PhExt >>
PatternChoices == { NoPattern, PatternTitle }

\* a text file of the given lines, each ended by a newline
TextOf(lines) == lines \o << << >> >>

NoPlaylist == << "<none>" >>

\* the disk with the audio files of DOMAIN t, tagged by t, and the playlist
\* of the lines pl
DiskOf(t, pl) ==
    [ p \in DOMAIN t \cup (IF pl = NoPlaylist THEN { } ELSE { PlaylistP }) |->
        IF p \in DOMAIN t THEN File(t[p], << << >> >>)
        ELSE File(NoTags, TextOf(pl)) ]

Taggings == UNION { [ D -> TagChoices ] : D \in SUBSET AudioFiles }

\* Spec: every tagging of the audio files, with no playlist or a short one
InitialDisks ==
    { DiskOf(t, pl) : t \in Taggings,
                      pl \in { NoPlaylist, << LineRel >> } }

\* SpecPl: every tagging of the audio files, with a playlist of up to
\* MaxLines lines
InitialDisksPl ==
    { DiskOf(t, pl) : t \in Taggings,
                      pl \in UNION { [ 1 .. n -> LineChoices ] : n \in 1 .. MaxLines } }

AnswerChoices == { Pick(1), Pick(2), Remove, Skip }

\* SpecDup: /m/x.mp3, /m/y.flac, /m/z.wav and /m/u,v.flac, tagged so that
\* there are groups of two and of three and files with no artist
FileY == << "/", "m", "/", "y", ".", "f", "l", "a", "c" >>
FileZ == << "/", "m", "/", "z", ".", "w", "a", "v" >>
FileUV == << "/", "m", "/", "u", ",", "v", ".", "f", "l", "a", "c" >>
TagsAnon == Meta(<< >>, << "L" >>, << >>, TitleAbc)
DupFiles == { FileX, FileY, FileZ, FileUV }
DupTaggings ==
    { t \in [ DupFiles -> { TagsA, TagsB, TagsAnon } ] :
        /\ t[FileX] \in { TagsA, TagsAnon }
        /\ t[FileY] \in { TagsA, TagsAnon }
        /\ t[FileZ] \in { TagsA, TagsB }
        /\ t[FileUV] = TagsB }
\* the seconds the probe finds in a file: none in /m/y.flac
SecsOf(p) == IF p = FileY THEN 0 ELSE Len(p)
InitialDisksDup ==
    { [ p \in DupFiles |->
          [tags |-> t[p], segs |-> << << >> >>, secs |-> SecsOf(p)] ] :
      t \in DupTaggings }

\* "{artist}/{title}", a naming pattern that leaves the extension out
PatternBare == << PhArtist, SLASH, PhTitle >>
\* "{albumartist}/{title}.{ext}"
PatternAlbumArtist == << PhAlbumArtist, SLASH, PhTitle, DOT, PhExt >>
PatternsName == { NoPattern, PatternTitle, PatternBare, PatternAlbumArtist }

\* SpecName: the audio files, each tagged or without tags
InitialDisksName ==
    { DiskOf(t, NoPlaylist) :
        t \in UNION { [ D -> { TagsA, NoTags } ] : D \in SUBSET AudioFiles } }

\* SpecPat: the patterns and the extracted values given to
\* generate_path_from_pattern.  A value may itself hold the text of a
\* placeholder.
PatternFull == << PhArtist, SLASH, PhAlbum, SLASH, PhTitle, DOT, PhExt >>
PatternTwice == << PhArtist, SPACE, "-", SPACE, PhArtist, DOT, PhExt >>
PatternPlain == << "s", "o", "n", "g" >>
Muse == << "M", "u", "s", "e" >>
OriginOfSymmetry ==
    << "O", "r", "i", "g", "i", "n", " ", "o", "f", " ",
       "S", "y", "m", "m", "e", "t", "r", "y" >>
PlugInBaby == << "P", "l", "u", "g", " ", "I", "n", " ", "B", "a", "b", "y" >>
PatternInputs ==
    [pattern : { PatternFull, PatternTitle, PatternTwice, PatternPlain },
     artist : { Muse, << >>, << PhTitle >> },
     album : { OriginOfSymmetry, << >>, << "L" >> },
     title : { PlugInBaby, << >>, << PhExt >> },
     ext : { MP3, FLAC }]

(***************************************************************************)
(* Operations                                                              *)
(***************************************************************************)
\* the text files of a disk: path -> pieces
Texts(f) == [ p \in { q \in DOMAIN f : Extension(q) \in PlaylistExts } |-> f[p].segs ]

NoPass == [autoOnly |-> FALSE, quiet |-> FALSE, autos |-> FALSE,
           catalog |-> << >>, texts |-> << >>]

\* what the last run of Dupes or Stats printed and did
NoReport == [kind |-> "none"]

InitOn(disks) ==
    /\ fs \in disks
    /\ dirs = { Root, MusicDir }
    /\ tracks = << >>
    /\ playlists = << >>
    /\ pc = "idle"
    /\ ops = [passes |-> 0, changes |-> 0, reports |-> 0]
    /\ last = [op |-> "init", report |-> NoReport, fatal |-> "none", aborted |-> FALSE, pattern |-> NoPattern,
               dry_run |-> FALSE, preTracks |-> << >>, prePlaylists |-> << >>,
               passTracks |-> << >>, sameConfig |-> FALSE,
               pending |-> FALSE, log |-> << >>,
               events |-> << >>, unresolved |-> << >>,
               wasClean |-> FALSE, clean |-> FALSE,
               indexed |-> FALSE, deleted |-> { }, dirty |-> FALSE,
               passIndexed |-> FALSE, passDeleted |-> { }, passDirty |-> FALSE,
               prevPass |-> NoPass, thisPass |-> NoPass]

Init == InitOn(InitialDisks)

\* a store in which every statement is visible as soon as it is executed
Autocommitted(aborted, before, tx) == tx

\* conn.transaction() ... tx.commit(): the table after the pass; a pass that
\* ends before the commit drops the transaction, which rolls it back
Committed(aborted, before, tx) == IF aborted THEN before ELSE tx

AbortChoices == { "none", "begin", "commit" }

\* index_library(music_dir, db_path, file_pattern, dry_run).  abort: the pass
\* panics on a store failure at its first query ("begin") or at the commit.
\* A run of the program that panicked is not continued.
IndexLibrary(pattern, dry_run, entries, deny) ==
    /\ pc = "idle"
    /\ ~last.aborted
    /\ \E res \in { ScanPass(fs, dirs, tracks, entries, pattern, dry_run, deny) },
          abort \in AbortChoices :
        /\ fs' = IF abort = "begin" THEN fs ELSE res.fs
        /\ dirs' = IF abort = "begin" THEN dirs ELSE res.dirs
        /\ tracks' = Committed(abort # "none", tracks, res.tx)
        /\ pc' = IF abort = "none" THEN "indexed" ELSE "idle"
        /\ last' = [last EXCEPT
                  !.op = "index_library", !.aborted = abort # "none",
                  !.fatal = IF abort # "none" THEN "store" ELSE "none",
                  !.pattern = pattern, !.dry_run = dry_run,
                  !.preTracks = tracks, !.prePlaylists = playlists,
                  !.passTracks = tracks,
                  !.sameConfig = pattern = last.pattern /\ dry_run = last.dry_run,
                  !.pending = abort = "commit" /\ res.tx # tracks,
                  !.log = IF abort = "begin" THEN << >> ELSE res.log,
                  !.events = << >>, !.unresolved = << >>,
                  !.wasClean = last.clean,
                  !.clean = pattern = NoPattern /\ abort = "none"]
    /\ ops' = [ops EXCEPT !.passes = @ + 1]
    /\ UNCHANGED playlists

\* the files the playlist pass reads, in the order the OS lists them
PlaylistOrders(f) ==
    Orders({ p \in DOMAIN f : Under(p, MusicDir) /\ Extension(p) \in PlaylistExts })

\* the pass in which no prompt is answered and no file access fails
QuietPass(entries) == ReconcilePass(fs, dirs, playlists, tracks, entries, << >>, 0)

\* the prompts of a pass
Prompts(events) == { i \in 1 .. Len(events) : events[i].prompted }

\* index_playlists(music_dir, db_path), run by main after index_library.
\* decs: the answers given to the prompts, in order.  fail_at: the call of
\* update_playlist_line that cannot read the file.
IndexPlaylists(entries, decs, fail_at) ==
    /\ pc = "indexed"
    /\ \E res \in { ReconcilePass(fs, dirs, playlists, tracks, entries, decs,
                                  fail_at) },
          abort \in AbortChoices :
        /\ ~res.invalid
        /\ fail_at <= res.calls
        /\ res.panicked => abort = "none"
        /\ fs' = IF abort = "begin" THEN fs ELSE res.fs
        /\ playlists' = Committed(res.panicked \/ abort # "none", playlists,
                                  res.tx)
        /\ last' = [last EXCEPT
              !.op = "index_playlists",
              !.aborted = res.panicked \/ abort # "none",
              !.fatal = IF res.panicked THEN "file"
                        ELSE IF abort # "none" THEN "store" ELSE "none",
              !.preTracks = tracks, !.prePlaylists = playlists,
              !.pending = /\ abort # "begin"
                          /\ res.panicked \/ abort # "none"
                          /\ res.tx # playlists,
              !.log = << >>,
              !.events = IF abort = "begin" THEN << >> ELSE res.events,
              !.unresolved = IF abort = "begin" THEN << >> ELSE res.unresolved,
              !.passIndexed = last.indexed,
              !.passDeleted = last.deleted,
              !.passDirty = last.dirty,
              !.indexed = TRUE,
              !.deleted = { },
              !.dirty = FALSE,
              !.prevPass = last.thisPass,
              !.thisPass =
                  IF res.panicked \/ abort # "none" THEN NoPass
                  ELSE [autoOnly |-> \A i \in 1 .. Len(res.events) :
                                        res.events[i].after # res.events[i].before
                                            => res.events[i].auto,
                        quiet |-> \A i \in 1 .. Len(res.events) :
                                     res.events[i].answer
                                        \in { "none", "Skip", "Cancel" },
                        autos |-> \E i \in 1 .. Len(res.events) :
                                     res.events[i].auto /\ res.events[i].wrote,
                        catalog |-> tracks, texts |-> Texts(res.fs)]]
    /\ pc' = "idle"
    /\ UNCHANGED << dirs, tracks, ops >>

\* The user changes the disk between two runs of the Index command.
CanChange ==
    /\ pc = "idle"
    /\ ~last.aborted
    /\ last.indexed
    /\ ops.passes < MaxPasses
    /\ ops.changes < MaxChanges
    /\ ops.reports = 0

\* a file is deleted from disk by the user
DeleteFile(p) ==
    /\ CanChange
    /\ p \in DOMAIN fs
    /\ fs' = [ q \in DOMAIN fs \ { p } |-> fs[q] ]
    /\ ops' = [ops EXCEPT !.changes = @ + 1]
    /\ last' = [last EXCEPT !.op = "delete", !.clean = FALSE, !.fatal = "none",
                            !.deleted = @ \cup { p }, !.log = << >>,
                            !.events = << >>, !.unresolved = << >>,
                            !.pending = FALSE]
    /\ UNCHANGED << dirs, tracks, playlists, pc >>

\* the tags of an audio file are edited by the user
Retag(p, tags) ==
    /\ CanChange
    /\ p \in DOMAIN fs
    /\ Extension(p) \in AudioExts
    /\ tags # fs[p].tags
    /\ fs' = [ fs EXCEPT ![p] = [ @ EXCEPT !.tags = tags ] ]
    /\ ops' = [ops EXCEPT !.changes = @ + 1]
    /\ last' = [last EXCEPT !.op = "retag", !.clean = FALSE, !.fatal = "none",
                            !.dirty = TRUE, !.log = << >>,
                            !.events = << >>, !.unresolved = << >>,
                            !.pending = FALSE]
    /\ UNCHANGED << dirs, tracks, playlists, pc >>

\* an audio file is replaced by the user with a longer encoding of it
Reencode(p) ==
    /\ pc = "idle"
    /\ ~last.aborted
    /\ last.indexed
    /\ ops.changes < MaxChanges
    /\ p \in DOMAIN fs
    /\ Extension(p) \in AudioExts
    /\ fs' = [ fs EXCEPT ![p] = [ @ EXCEPT !.secs = @ + 1 ] ]
    /\ ops' = [ops EXCEPT !.changes = @ + 1]
    /\ last' = [last EXCEPT !.op = "reencode", !.clean = FALSE, !.fatal = "none",
                            !.dirty = TRUE, !.log = << >>,
                            !.events = << >>, !.unresolved = << >>,
                            !.pending = FALSE]
    /\ UNCHANGED << dirs, tracks, playlists, pc >>

\* The Dupes and Stats commands are run after an Index command.
CanReport ==
    /\ pc = "idle"
    /\ ~last.aborted
    /\ last.indexed

\* find_duplicates(db_path, fix).  keys: the order in which the first query
\* returns the groups.  decs: the answer to the prompt of each group.
FindDuplicates(fix, keys, decs, undeletable, fail_at) ==
    /\ CanReport
    /\ \E res \in { DuplicatePass(tracks, fs, keys, fix, decs, undeletable,
                                  fail_at) } :
        /\ fail_at <= res.final.execs
        /\ tracks' = res.final.tx
        /\ fs' = res.final.fs
        /\ last' = [last EXCEPT
              !.op = "find_duplicates",
              !.aborted = res.final.fatal # "none",
              !.fatal = res.final.fatal,
              !.preTracks = tracks,
              !.pending = FALSE, !.log = << >>,
              !.events = << >>, !.unresolved = << >>,
              !.clean = FALSE, !.dirty = TRUE,
              !.report = [kind |-> "dupes", fix |-> fix,
                          files |-> DOMAIN fs,
                          groups |-> res.exact.groups,
                          removed |-> res.exact.removed,
                          failed |-> res.exact.failed,
                          fatal |-> res.final.fatal,
                          exactTracks |-> res.exact.tx,
                          exactFiles |-> DOMAIN res.exact.fs,
                          quality |-> res.final.quality]]
    /\ ops' = [ops EXCEPT !.reports = @ + 1]
    /\ UNCHANGED << dirs, playlists, pc >>

\* get_stats(music_dir, db_path).  fail_at: the UPDATE statement of the run
\* that the store fails (0: none).  The music directory exists, so get_size
\* succeeds.
GetStats(fail_at) ==
    /\ CanReport
    /\ \E res \in { StatsPass(tracks, fs, fail_at) } :
        /\ fail_at <= res.execs
        /\ tracks' = res.tx
        /\ last' = [last EXCEPT
              !.op = "get_stats",
              !.aborted = res.fatal # "none",
              !.fatal = res.fatal,
              !.preTracks = tracks,
              !.pending = FALSE, !.log = << >>,
              !.events = << >>, !.unresolved = << >>,
              !.report = [kind |-> "stats", fatal |-> res.fatal,
                          total_tracks |-> res.total_tracks,
                          total_artists |-> res.total_artists,
                          total_albums |-> res.total_albums,
                          total_duration |-> res.total_duration]]
    /\ ops' = [ops EXCEPT !.reports = @ + 1]
    /\ UNCHANGED << fs, dirs, playlists, pc >>

\* the answers the prompt of a group can return
DupAnswers(table, key, fix) ==
    IF fix
    THEN { Skip } \cup { Keep(r.path) : r \in { x \in Rows(table) : DupKey(x) = key } }
    ELSE { Skip }

\* the files whose deletion the OS may refuse: at most one of a run
Undeletable(table, fix) ==
    IF fix
    THEN { { } } \cup { { Resolve(r.path) } :
                          r \in { x \in Rows(table) : DupKey(x) \in DupKeys(table) } }
    ELSE { { } }

DupesStep ==
    /\ CanReport
    /\ ops.reports < MaxReports
    /\ \E fix \in BOOLEAN, keys \in Orders(DupKeys(tracks)) :
        \E undeletable \in Undeletable(tracks, fix),
           fail_at \in 0 .. (IF fix THEN MaxFailAt ELSE 0),
           decs \in [ DupKeys(tracks) ->
                        { Skip } \cup { Keep(r.path) : r \in Rows(tracks) } ] :
            /\ \A k \in DupKeys(tracks) : decs[k] \in DupAnswers(tracks, k, fix)
            /\ FindDuplicates(fix, keys, decs, undeletable, fail_at)

StatsStep(limit) ==
    /\ ops.reports < limit
    /\ \E fail_at \in 0 .. MaxFailAt : GetStats(fail_at)

\* the entries whose move the OS may refuse: at most one of a pass
Deniable(pattern, dry_run) ==
    IF pattern = NoPattern \/ dry_run THEN { { } }
    ELSE { { } } \cup { { p } : p \in { q \in DOMAIN fs : Extension(q) \in AudioExts } }

LibraryStep(patterns, limit) ==
    /\ pc = "idle"
    /\ ops.passes < limit
    /\ \E pattern \in patterns, dry_run \in BOOLEAN, entries \in WalkOrders(fs) :
        \E deny \in Deniable(pattern, dry_run) :
            /\ pattern = NoPattern => ~dry_run
            /\ IndexLibrary(pattern, dry_run, entries, deny)

PlaylistStep(answers) ==
    /\ pc = "indexed"
    /\ \E entries \in PlaylistOrders(fs) :
        \E quiet \in { QuietPass(entries).events } :
            \E fail_at \in 0 .. Min(MaxFailAt, Len(quiet)),
               decs \in [ 1 .. Cardinality(Prompts(quiet)) -> answers ] :
                IndexPlaylists(entries, decs, fail_at)

DeleteStep == \E p \in DOMAIN fs : DeleteFile(p)

RetagStep == \E p \in DOMAIN fs, tags \in TagChoices : Retag(p, tags)

Next ==
    \/ LibraryStep(PatternChoices, MaxPasses)
    \/ PlaylistStep({ Pick(1), Skip })
    \/ DeleteStep
    \/ RetagStep

Spec == Init /\ [][Next]_vars

\* One run of the Index command over richer playlists, with no naming pattern
\* and with every answer to its prompts.
InitPl == InitOn(InitialDisksPl)

NextPl ==
    \/ LibraryStep({ NoPattern }, MaxAnswered)
    \/ PlaylistStep(AnswerChoices)

SpecPl == InitPl /\ [][NextPl]_vars

\* Unattended runs of the Index command over the same disks, with no naming
\* pattern: no terminal, so every prompt ends with an error.
NextAuto ==
    \/ LibraryStep({ NoPattern }, MaxPasses)
    \/ PlaylistStep({ Cancel })

SpecAuto == InitPl /\ [][NextAuto]_vars

\* Runs of the Index command over the same disks in which a prompt is
\* answered with the first suggestion or "Skip", or is cancelled.
AnswersAsk == { Pick(1), Skip, Cancel }

NextAsk ==
    \/ LibraryStep({ NoPattern }, MaxAnswered)
    \/ PlaylistStep(AnswersAsk)

SpecAsk == InitPl /\ [][NextAsk]_vars

\* Runs of the Index command over tagged and untagged audio files, with
\* every naming pattern of PatternsName.
InitName == InitOn(InitialDisksName)

NextName ==
    \/ LibraryStep(PatternsName, MaxPasses)
    \/ PlaylistStep({ Skip })

SpecName == InitName /\ [][NextName]_vars

\* One run of the Index command over audio files of several formats, then
\* the Dupes and Stats commands, a file deleted in between or not.
InitDup == InitOn(InitialDisksDup)

NextDup ==
    \/ LibraryStep({ NoPattern }, MaxScans)
    \/ PlaylistStep({ Skip })
    \/ DeleteStep
    \/ DupesStep
    \/ StatsStep(MaxReports)

SpecDup == InitDup /\ [][NextDup]_vars

\* One run of the Index command over the same disks, then runs of the Stats
\* command, a file replaced in between or not.
ReencodeStep == \E p \in DOMAIN fs : Reencode(p)

NextStats ==
    \/ LibraryStep({ NoPattern }, MaxScans)
    \/ PlaylistStep({ Skip })
    \/ ReencodeStep
    \/ StatsStep(MaxStats)

SpecStats == InitDup /\ [][NextStats]_vars

\* generate_path_from_pattern alone, applied to every input of PatternInputs
InitPat ==
    /\ fs = << >>
    /\ dirs = { }
    /\ tracks = << >>
    /\ playlists = << >>
    /\ pc = "pattern"
    /\ ops = [passes |-> 0, changes |-> 0, reports |-> 0]
    /\ last \in { [op |-> "input", input |-> i, path |-> << >>] :
                    i \in PatternInputs }

GeneratePath ==
    /\ pc = "pattern"
    /\ pc' = "generated"
    /\ last' = [last EXCEPT
                  !.op = "generate_path_from_pattern",
                  !.path = generate_path_from_pattern(last.input.pattern,
                               last.input.artist, last.input.album,
                               last.input.title, last.input.ext)]
    /\ UNCHANGED << fs, dirs, tracks, playlists, ops >>

NextPat == GeneratePath

SpecPat == InitPat /\ [][NextPat]_vars

\* The candidate list alone, for every catalog of at most MaxRows tracks with
\* titles of RankTitles and every song name of RankKeys
MaxRows == 6

RankTitles == { TitleAbc, TitleAb, << "b" >> }

RankKeys == { TitleAbc, << "a", "b", "c", "d" >> }

RankPath(i) == << "/", "m", "/" >> \o << ToString(i) >> \o << DOT >> \o MP3

RankCatalogs ==
    UNION { { [ i \in 1 .. n |->
                  [artist |-> << >>, album |-> << >>, albumartist |-> << >>,
                   title |-> titles[i], path |-> RankPath(i), duration |-> 0] ] :
              titles \in [ 1 .. n -> RankTitles ] } : n \in 0 .. MaxRows }

InitRank ==
    /\ fs = << >>
    /\ dirs = { }
    /\ tracks \in RankCatalogs
    /\ playlists = << >>
    /\ pc = "broken"
    /\ ops = [passes |-> 0, changes |-> 0, reports |-> 0]
    /\ last = [op |-> "init", song_name |-> << >>, top_suggestions |-> << >>]

\* the candidate list made for a broken reference with the song name
Suggest(song_name) ==
    /\ pc = "broken"
    /\ pc' = "suggested"
    /\ last' = [op |-> "suggest", song_name |-> song_name,
                top_suggestions |-> TopSuggestions(tracks, song_name)]
    /\ UNCHANGED << fs, dirs, tracks, playlists, ops >>

NextRank == \E song_name \in RankKeys : Suggest(song_name)

SpecRank == InitRank /\ [][NextRank]_vars

(***************************************************************************)
(* The scanner                                                             *)
(***************************************************************************)
ScanCommitted == last.op = "index_library" /\ ~last.aborted

\* C1. Scanner idempotence: a scan with no naming pattern that follows a
\* committed scan with no naming pattern, the directory not having changed in
\* between, leaves the tracks table with the same rows: as many of them, and
\* every field of every one as it was.
ScanIdempotent ==
    (ScanCommitted /\ last.pattern = NoPattern /\ last.wasClean)
        => /\ Len(tracks) = Len(last.preTracks)
           /\ Rows(tracks) = Rows(last.preTracks)

\* a second scan of an unchanged directory that met a file it had indexed
ScanRepeated ==
    /\ ScanCommitted /\ last.pattern = NoPattern /\ last.wasClean
    /\ \E i \in 1 .. Len(last.log) : last.log[i].existed

\* the deletion of the indexed file p is all that changed between the last
\* run of the Index command and this one, run with the same configuration
OnlyDeleted(p) ==
    /\ last.op = "index_playlists" /\ ~last.aborted
    /\ last.passIndexed /\ ~last.passDirty /\ last.sameConfig
    /\ last.passDeleted = { p }
    /\ HasPath(last.passTracks, p) \/ HasPath(last.prePlaylists, p)

\* C2. Prune correctness: when exactly one indexed file was deleted since the
\* last run of the index, the next run removes the record of that file and
\* leaves every other Track and Playlist record present and unchanged.  (A
\* record of the path is allowed when the run itself moved a file there.)
PruneExact ==
    \A p \in last.passDeleted :
        OnlyDeleted(p)
            => /\ HasPath(tracks, p) => Exists(fs, dirs, p)
               /\ ~HasPath(playlists, p)
               /\ \A r \in Rows(last.passTracks) : r.path # p => r \in Rows(tracks)
               /\ \A r \in Rows(last.prePlaylists) : r.path # p => r \in Rows(playlists)

\* an index run after the deletion of one indexed file
PrunedOne == \E p \in last.passDeleted : OnlyDeleted(p)

\* C3. Upsert semantics: when a scan upserts a path that has a Track record,
\* the record stays exactly as it was, whatever the scan extracted, and the
\* path has still one record.
UpsertKeeps ==
    ScanCommitted =>
        \A i \in 1 .. Len(last.log) :
            last.log[i].existed => RowsAt(tracks, last.log[i].path) = last.log[i].before

\* a scan upserted a path whose record holds other metadata than the scan
\* extracted
UpsertMet ==
    /\ ScanCommitted
    /\ \E i \in 1 .. Len(last.log) :
        LET e == last.log[i]
        IN  /\ e.existed
            /\ Len(e.before) = 1
            /\ e.before[1] # InsertValues(e.path, e.tags.artist, e.tags.albumartist,
                                          e.tags.album, e.tags.title)

\* C4. Pass atomicity: when a scan pass or a playlist reconciliation pass ends
\* before its commit, the tracks and playlists tables are as they were before
\* the pass.
PassAtomic ==
    (last.op \in { "index_library", "index_playlists" } /\ last.aborted)
        => /\ tracks = last.preTracks
           /\ playlists = last.prePlaylists

\* a scan pass that had pruned or inserted rows ended at its commit
ScanAborted == last.op = "index_library" /\ last.aborted /\ last.pending

\* C5. A scan that inserts a new Track record stores every extracted value in
\* the column of its name: artist, album, album-artist, title; and 0 as the
\* duration.
InsertColumns ==
    ScanCommitted =>
        \A i \in 1 .. Len(last.log) :
            LET e == last.log[i]
            IN  ~e.existed =>
                    \A r \in Rows(RowsAt(tracks, e.path)) :
                        /\ r.artist = e.tags.artist
                        /\ r.album = e.tags.album
                        /\ r.albumartist = e.tags.albumartist
                        /\ r.title = e.tags.title
                        /\ r.duration = 0

\* a scan inserted a new Track record
Inserted ==
    /\ ScanCommitted
    /\ \E i \in 1 .. Len(last.log) : ~last.log[i].existed

(***************************************************************************)
(* The playlist reconciler                                                 *)
(***************************************************************************)
\* the broken references of the last reconciliation pass
Events == IF last.op = "index_playlists" THEN last.events ELSE << >>

\* update_playlist_line was called for the reference and could read the file
Called(e) == (e.auto \/ e.answer \in { "Pick", "Remove" }) /\ ~e.failed

PlaylistDir(e) == ParentOr(e.playlist)

\* the lines of the file, as the call read them, with the target's form
Matching(e) ==
    { j \in 1 .. Len(Lines(e.before)) :
        LineMatches(Lines(e.before)[j], PlaylistDir(e),
                    StripPrefixOr(e.target, PlaylistDir(e))) }

Least(S) == CHOOSE x \in S : \A y \in S : x <= y

\* the candidate's path as a playlist line may hold it
NamesPath(line, path, playlist_dir) ==
    line = path \/ line = StripPrefixOr(path, playlist_dir)

\* C6. Auto-replace threshold: for a broken reference with candidates, a top
\* score of at least 0.90 rewrites the reference's line to the top candidate's
\* path with no prompt; with a lower top score the file changes only after a
\* prompt that was answered with a candidate or with Remove.
ThresholdRule ==
    \A i \in 1 .. Len(Events) :
        LET e == Events[i]
        IN  ~e.failed =>
                IF ScoreGe(e.top.score, Threshold)
                THEN /\ ~e.prompted
                     /\ e.idx <= Len(e.after)
                     /\ NamesPath(e.after[e.idx], e.top.path, PlaylistDir(e))
                ELSE e.after # e.before
                        => e.prompted /\ e.answer \in { "Pick", "Remove" }

\* a reference was replaced with no prompt
AutoReplaced ==
    \E i \in 1 .. Len(Events) : Events[i].auto /\ Events[i].wrote

\* C7. update_playlist_line changes only the first line with the target's
\* relative form: every other line keeps its content and its position; when no
\* line has that form the file is not written, a warning is printed and the
\* call succeeds.
RewriteFirstOnly ==
    \A i \in 1 .. Len(Events) :
        LET e == Events[i]
            lines == Lines(e.before)
        IN  Called(e) =>
                IF Matching(e) = { }
                THEN ~e.wrote /\ e.warned /\ e.after = e.before
                ELSE /\ e.wrote /\ ~e.warned
                     /\ Len(e.after) = Len(lines)
                     /\ e.after[Least(Matching(e))]
                            = StripPrefixOr(e.new_line, PlaylistDir(e))
                     /\ \A j \in 1 .. Len(lines) :
                            j # Least(Matching(e)) => e.after[j] = lines[j]

\* a rewrite of a file in which two lines have the target's form
RewroteFirstOfTwo ==
    \E i \in 1 .. Len(Events) :
        /\ Called(Events[i]) /\ Events[i].wrote
        /\ Cardinality(Matching(Events[i])) > 1

\* s without its element i
Without(s, i) == [ j \in 1 .. Len(s) - 1 |-> IF j < i THEN s[j] ELSE s[j + 1] ]

\* C8. "Remove" deletes the line of the broken reference: the file has one
\* line fewer and its lines are the other lines in their order.  (Stated for
\* a reference whose own line the rewrite finds.)
RemoveDeletes ==
    \A i \in 1 .. Len(Events) :
        LET e == Events[i]
        IN  (e.answer = "Remove" /\ ~e.failed /\ e.hit = e.idx)
                => Lines(e.after) = Without(Lines(e.before), e.idx)

\* "Remove" was chosen for a broken reference
Removed ==
    \E i \in 1 .. Len(Events) : Events[i].answer = "Remove" /\ ~Events[i].failed

\* an unattended pass followed the pass before it with the catalog unchanged,
\* and that pass changed the playlists by auto-replacements only
Repeated ==
    /\ last.op = "index_playlists" /\ ~last.aborted
    /\ last.prevPass.autoOnly /\ last.prevPass.quiet
    /\ last.thisPass.quiet
    /\ last.thisPass.catalog = last.prevPass.catalog

MatchesOwnTarget ==
    \A i \in 1 .. Len(Events) :
        LineMatches(Events[i].line, PlaylistDir(Events[i]),
                    StripPrefixOr(Events[i].target, PlaylistDir(Events[i])))

\* a relative and an absolute line were taken for broken references
MetBothForms ==
    /\ \E i \in 1 .. Len(Events) : IsAbsolute(Events[i].line)
    /\ \E i \in 1 .. Len(Events) : ~IsAbsolute(Events[i].line)

(***************************************************************************)
(* The scanner and the naming pattern                                      *)
(***************************************************************************)
\* the upserts of the last scan
Upserts == IF last.op = "index_library" THEN last.log ELSE << >>

\* C14. Failed move: when a naming pattern is set, the scan is not a dry run
\* and the move of a file to its canonical path fails, the record upserted
\* for the file carries the path the file was found at.
FailedMoveKeepsPath ==
    \A i \in 1 .. Len(Upserts) :
        (Upserts[i].wanted /\ ~Upserts[i].moved)
            => Upserts[i].path = Upserts[i].entry

\* a scan in which the move of a file failed
MoveFailed ==
    \E i \in 1 .. Len(Upserts) : Upserts[i].wanted /\ ~Upserts[i].moved

\* C15. Dry run: a scan in dry-run mode with a naming pattern leaves the
\* files and the directories on disk as they were.
DryRunFrame ==
    [][(ops'.passes # ops.passes /\ last'.dry_run /\ last'.pattern # NoPattern)
          => (fs' = fs /\ dirs' = dirs)]_vars

\* a dry run that met a file whose canonical path is not its path
DryRunWouldMove ==
    /\ last.dry_run /\ last.pattern # NoPattern
    /\ \E i \in 1 .. Len(Upserts) : Upserts[i].path # Upserts[i].entry

\* C17. Track path invariant: after any sequence of scans, the path of every
\* Track record has a recognized audio extension.
TrackPathsAudio ==
    \A i \in 1 .. Len(tracks) : Extension(tracks[i].path) \in AudioExts

\* a committed scan with a naming pattern that recorded a track
PatternScanRecorded ==
    /\ ScanCommitted /\ last.pattern # NoPattern
    /\ tracks # << >>

\* the text of one element of a pattern after the substitution the claim
\* describes: a placeholder gives the value of its name, other text itself
ValueOf(c, input) ==
    IF c = PhArtist THEN input.artist
    ELSE IF c = PhAlbum THEN input.album
    ELSE IF c = PhTitle THEN input.title
    ELSE IF c = PhExt THEN input.ext
    ELSE << c >>

RECURSIVE Substituted(_, _)
Substituted(pattern, input) ==
    IF pattern = << >> THEN << >>
    ELSE ValueOf(Head(pattern), input) \o Substituted(Tail(pattern), input)

\* C20. Naming-pattern substitution: generate_path_from_pattern returns the
\* pattern with every {artist}, {album}, {title} and {ext} replaced by the
\* extracted value of that name, and all other text unchanged.
PatternSubstituted ==
    (pc = "generated"
        /\ \A i \in 1 .. Len(last.input.pattern) :
              last.input.pattern[i] # PhAlbumArtist)
        => last.path = Substituted(last.input.pattern, last.input)

\* the path generated for "{artist}/{album}/{title}.{ext}" with Muse, Origin
\* of Symmetry, Plug In Baby and mp3
GeneratedExample ==
    /\ pc = "generated"
    /\ last.input = [pattern |-> PatternFull, artist |-> Muse,
                     album |-> OriginOfSymmetry, title |-> PlugInBaby,
                     ext |-> MP3]
    /\ last.path = Muse \o << SLASH >> \o OriginOfSymmetry \o << SLASH >>
                        \o PlugInBaby \o << DOT >> \o MP3

(***************************************************************************)
(* Failures                                                                *)
(***************************************************************************)
\* C16. Only a store failure is fatal: a scan, a reconciliation or a
\* duplicate pass that did not reach its end was ended by a failure of the
\* store, never by a failure of tag extraction or of the filesystem.
OnlyStoreFatal == last.aborted => last.fatal = "store"

\* a reconciliation pass in which update_playlist_line could not read the
\* playlist file
PlaylistReadFailed ==
    /\ last.op = "index_playlists"
    /\ \E i \in 1 .. Len(last.events) : last.events[i].failed

(***************************************************************************)
(* The duplicate detector and the statistics                               *)
(***************************************************************************)
DupesRan == last.op = "find_duplicates" /\ last.fatal # "store"

\* the records of the table with the artist and the title of key
SharedBy(table, key) ==
    { r \in Rows(table) : r.artist = key.artist /\ r.title = key.title }

\* the artist and title shared by two or more records, both non-empty
SharedKeys(table) ==
    { k \in { [artist |-> r.artist, title |-> r.title] : r \in Rows(table) } :
        /\ k.artist # << >>
        /\ k.title # << >>
        /\ Cardinality(SharedBy(table, k)) >= 2 }

Range(seq) == { seq[i] : i \in 1 .. Len(seq) }

Groups == IF last.op = "find_duplicates" THEN last.report.groups ELSE << >>

\* C11. Exact-duplicate report: find_duplicates reports exactly the groups of
\* two or more records with the same non-empty artist and the same non-empty
\* title, each once and with the path of every member; a track with an empty
\* artist or an empty title is in no group.
ExactGroupsReported ==
    DupesRan
        => /\ { Groups[i].key : i \in 1 .. Len(Groups) } = SharedKeys(last.preTracks)
           /\ Len(Groups) = Cardinality(SharedKeys(last.preTracks))
           /\ \A i \in 1 .. Len(Groups) :
                /\ Range(Groups[i].paths)
                     = { r.path : r \in SharedBy(last.preTracks, Groups[i].key) }
                /\ Len(Groups[i].paths)
                     = Cardinality(SharedBy(last.preTracks, Groups[i].key))
           /\ \A r \in Rows(last.preTracks) :
                (r.artist = << >> \/ r.title = << >>)
                    => \A i \in 1 .. Len(Groups) : r.path \notin Range(Groups[i].paths)

\* a report of a group, made of a catalog in which two records with no artist
\* have the same title
ReportedBesideAnonymous ==
    /\ DupesRan
    /\ Groups # << >>
    /\ \E r1, r2 \in Rows(last.preTracks) :
          r1 # r2 /\ r1.artist = << >> /\ r2.artist = << >> /\ r1.title = r2.title

\* the rank of a path by its extension: flac 1, m4a 2, mp3 3, others 100
RankOfPath(path) ==
    IF Extension(path) = FLAC THEN 1
    ELSE IF Extension(path) = M4A THEN 2
    ELSE IF Extension(path) = MP3 THEN 3
    ELSE 100

LabelOfPath(path) ==
    IF Extension(path) = FLAC THEN "FLAC"
    ELSE IF Extension(path) = M4A THEN "M4A"
    ELSE IF Extension(path) = MP3 THEN "MP3"
    ELSE "OTHER"

\* the lowest rank of the group is strictly smaller than the second lowest
BestIsAlone(members) ==
    \E r \in members : \A o \in members \ { r } : RankOfPath(r.path) < RankOfPath(o.path)

\* C12. Quality-duplicate report: a duplicate group is in the quality report
\* if and only if its lowest rank is strictly smaller than its second lowest,
\* and a reported group lists its members, each with the label of its rank,
\* in ascending rank order.
QualityGroupsReported ==
    (DupesRan /\ last.fatal = "none")
        => /\ { g.key : g \in last.report.quality }
                = { k \in SharedKeys(tracks) : BestIsAlone(SharedBy(tracks, k)) }
           /\ \A g \in last.report.quality :
                /\ Range([ i \in 1 .. Len(g.files) |-> g.files[i].path ])
                     = { r.path : r \in SharedBy(tracks, g.key) }
                /\ Len(g.files) = Cardinality(SharedBy(tracks, g.key))
                /\ \A i \in 1 .. Len(g.files) :
                     g.files[i].label = LabelOfPath(g.files[i].path)
                /\ \A i \in 1 .. Len(g.files) - 1 :
                     RankOfPath(g.files[i].path) <= RankOfPath(g.files[i + 1].path)

\* a quality report that lists a group
QualityReported ==
    DupesRan /\ last.fatal = "none" /\ last.report.quality # { }

\* C13. Duplicate fix: when fix is requested and a path of a group is chosen,
\* the record and the file of that path are kept, the record of every other
\* member is removed and the deletion of its file is attempted; a deletion
\* that fails stops neither the removal of the other members nor the
\* processing of the later groups.
FixRemovesOthers ==
    (DupesRan /\ last.report.fix)
        => /\ Len(Groups) = Cardinality(SharedKeys(last.preTracks))
           /\ \A i \in 1 .. Len(Groups) :
                Groups[i].kept # << >>
                    => /\ \E r \in Rows(tracks) :
                            r.path = Groups[i].kept /\ r \in Rows(last.preTracks)
                       /\ Resolve(Groups[i].kept) \in last.report.files
                            => Resolve(Groups[i].kept) \in DOMAIN fs
                       /\ \A q \in Range(Groups[i].paths) \ { Groups[i].kept } :
                            /\ ~HasPath(tracks, q)
                            /\ q \in Range(last.report.removed)
                            /\ Resolve(q) \in DOMAIN fs
                                 => q \in Range(last.report.failed)

\* a fix in which the deletion of a file failed and a member was removed
\* after it
FixedPastFailure ==
    /\ DupesRan /\ last.report.fix
    /\ \E i \in 1 .. Len(last.report.removed) - 1 :
          last.report.removed[i] \in Range(last.report.failed)

\* C18. A stats pass removes the Track records whose path is not on disk, so
\* that its totals count only the tracks whose files exist.
StatsPrunes ==
    (last.op = "get_stats" /\ last.fatal = "none")
        => /\ \A r \in Rows(tracks) : Exists(fs, dirs, r.path)
           /\ last.report.total_tracks
                = Cardinality({ i \in 1 .. Len(last.preTracks) :
                                  Exists(fs, dirs, last.preTracks[i].path) })

\* a stats pass run after the file of a track was deleted
StatsAfterDelete ==
    /\ last.op = "get_stats" /\ last.fatal = "none"
    /\ \E r \in Rows(last.preTracks) : ~Exists(fs, dirs, r.path)

\* C19. The quality pass of find_duplicates is report-only: with fix set or
\* not, it leaves the records and the files as the first pass left them.
QualityPassFrame ==
    (DupesRan /\ last.fatal = "none")
        => /\ tracks = last.report.exactTracks
           /\ DOMAIN fs = last.report.exactFiles

\* a run with fix set whose quality report lists a group
QualityReportedOnFix ==
    DupesRan /\ last.fatal = "none" /\ last.report.fix /\ last.report.quality # { }

(***************************************************************************)
(* Relocation                                                              *)
(***************************************************************************)
\* the album-artist value of the tags, or the artist value when there is none
AlbumArtistOr(tags) ==
    IF tags.albumartist # << >> THEN tags.albumartist ELSE tags.artist

\* C21. The {albumartist} placeholder of a naming pattern is replaced by the
\* extracted album-artist value, and by the artist value only when there is
\* no album-artist value: the path recorded for a file scanned with
\* "{albumartist}/{title}.{ext}" is the one made of that value.
AlbumArtistSubstituted ==
    last.pattern = PatternAlbumArtist
        => \A i \in 1 .. Len(Upserts) :
              PathEq(Upserts[i].path,
                     PathJoin(MusicDir,
                              AlbumArtistOr(Upserts[i].tags) \o << SLASH >>
                                  \o Upserts[i].tags.title \o << DOT >>
                                  \o Extension(Upserts[i].entry)))

\* a scan with "{albumartist}/{title}.{ext}" of a file whose album-artist
\* value is not its artist value
AlbumArtistMet ==
    /\ last.pattern = PatternAlbumArtist
    /\ \E i \in 1 .. Len(Upserts) :
          /\ Upserts[i].tags.albumartist # << >>
          /\ Upserts[i].tags.albumartist # Upserts[i].tags.artist

\* the audio files under the music directory
AudioOn(f) ==
    { p \in DOMAIN f : Under(p, MusicDir) /\ Extension(p) \in AudioExts }

\* the canonical path of the file at p under the pattern
CanonicalOf(f, p, pattern) ==
    Resolve(PathJoin(MusicDir,
        generate_path_from_pattern(pattern, f[p].tags.artist, f[p].tags.album,
                                   f[p].tags.title, Extension(p))))

\* C22. Relocation never destroys a file: after a scan with a naming pattern
\* that is not a dry run, every audio file there was is still there, at its
\* path or at its canonical path, and there are as many files as there were.
RelocationKeepsFiles ==
    [][(ops'.passes # ops.passes /\ ~last'.dry_run /\ last'.pattern # NoPattern)
          => /\ Cardinality(DOMAIN fs') = Cardinality(DOMAIN fs)
             /\ \A p \in AudioOn(fs) :
                  \/ p \in DOMAIN fs' /\ fs'[p] = fs[p]
                  \/ /\ CanonicalOf(fs, p, last'.pattern) \in DOMAIN fs'
                     /\ fs'[CanonicalOf(fs, p, last'.pattern)] = fs[p]]_vars

\* a scan that moved a file to its canonical path
Relocated ==
    /\ last.pattern # NoPattern /\ ~last.dry_run
    /\ \E i \in 1 .. Len(Upserts) : Upserts[i].moved

\* C23. Catalog/disk agreement: after every committed scan, the path of every
\* Track record names a file that is on disk.
CatalogOnDisk ==
    ScanCommitted => \A r \in Rows(tracks) : Resolve(r.path) \in DOMAIN fs

\* a committed scan that recorded a path other than the one the file was at
RecordedElsewhere ==
    /\ ScanCommitted
    /\ \E i \in 1 .. Len(Upserts) : Upserts[i].path # Upserts[i].entry

(***************************************************************************)
(* Reconciliation: positions, ranking, decisions                           *)
(***************************************************************************)
\* line j of the text, empty when the text has fewer lines
LineAt(segs, j) ==
    IF j <= Len(Lines(segs)) THEN Lines(segs)[j] ELSE << >>

\* C24. Every rewrite or removal made for a broken reference changes the line
\* at that reference's own position in the playlist file and no other line.
\* (A line the file ends before reads as an empty line: emptying the last
\* line leaves a file that str::lines reads with one line fewer.)
RewriteAtOwnLine ==
    \A i \in 1 .. Len(Events) :
        LET e == Events[i]
        IN  e.wrote =>
                /\ e.hit = e.idx
                /\ Len(Lines(e.after)) <= Len(Lines(e.before))
                /\ \A j \in 1 .. Len(Lines(e.before)) :
                       j # e.idx => LineAt(e.after, j) = Lines(e.before)[j]

\* a rewrite made for a reference whose line stands below a line that was
\* skipped
RewroteBelowSkipped ==
    \E i, j \in 1 .. Len(Events) :
        /\ i < j
        /\ Events[i].playlist = Events[j].playlist
        /\ Events[i].answer = "Skip"
        /\ Events[j].wrote

\* the position in the catalog of the track a suggestion is for
RowOf(suggestion) ==
    CHOOSE i \in 1 .. Len(tracks) : tracks[i].path = suggestion.path

\* suggestion x stands before a suggestion of score s for row i: its score is
\* higher, or equal with its row read earlier
RanksBefore(x, s, i) ==
    \/ ScoreGt(x.score, s)
    \/ ScoreGe(x.score, s) /\ RowOf(x) < i

\* C25. Candidate ranking: the candidate list holds tracks of the catalog, each
\* once and with its score against the song name, in descending order of score,
\* tracks of equal score in the order the catalog is read; it is cut to at most
\* 5 entries, none of the tracks left out ranking before one that is listed.
CandidateRanking ==
    last.op = "suggest" =>
        LET top == last.top_suggestions
            Score(i) == jaro(tracks[i].title, last.song_name)
        IN  /\ Len(top) = Min(5, Len(tracks))
            /\ \A k \in 1 .. Len(top) :
                  /\ \E i \in 1 .. Len(tracks) : tracks[i].path = top[k].path
                  /\ top[k].score = Score(RowOf(top[k]))
            /\ \A k, l \in 1 .. Len(top) :
                  k < l => RanksBefore(top[k], top[l].score, RowOf(top[l]))
            /\ \A i \in 1 .. Len(tracks) :
                  (\A k \in 1 .. Len(top) : RowOf(top[k]) # i)
                      => \A k \in 1 .. Len(top) : RanksBefore(top[k], Score(i), i)

\* a list cut to 5 in which two tracks have the same score, a track of that
\* score being left out
CutAmongEqual ==
    /\ last.op = "suggest"
    /\ Len(tracks) > Len(last.top_suggestions)
    /\ LET top == last.top_suggestions
       IN  /\ top[4].score = top[5].score
           /\ \E i \in 1 .. Len(tracks) :
                 /\ \A k \in 1 .. Len(top) : RowOf(top[k]) # i
                 /\ jaro(tracks[i].title, last.song_name) = top[5].score

\* line j of the playlist p on the disk names a song whose file does not exist
BrokenAt(f, d, p, j) ==
    LET trimmed == Trim(Lines(f[p].segs)[j])
    IN  /\ trimmed # << >>
        /\ ~StartsWith(trimmed, << HASH >>)
        /\ ~Exists(f, d, IF IsAbsolute(trimmed) THEN trimmed
                         ELSE PathJoin(ParentOr(p), trimmed))

\* the prompt was answered "Skip" or was cancelled
Declined(e) == e.answer \in { "Skip", "Cancel" }

\* C26. When the answer for a broken reference is "Skip" or the prompt is
\* cancelled, and when the catalog holds no candidate, the playlist file is
\* left as it is for that reference (a pass of such references only changes no
\* file and does not fail), and the pass goes on: in a pass that is committed
\* every broken reference of every playlist was handled.
SkipLeavesFile ==
    [][(pc = "indexed" /\ last'.op = "index_playlists")
          => /\ \A i \in 1 .. Len(last'.events) :
                  Declined(last'.events[i])
                      => /\ last'.events[i].after = last'.events[i].before
                         /\ ~last'.events[i].wrote
                         /\ ~last'.events[i].failed
             /\ (\A i \in 1 .. Len(last'.events) : Declined(last'.events[i]))
                  => fs' = fs /\ last'.fatal # "file"
             /\ ~last'.aborted
                  => \A p \in { q \in DOMAIN fs : Extension(q) \in PlaylistExts } :
                       \A j \in 1 .. Len(Lines(fs[p].segs)) :
                         BrokenAt(fs, dirs, p, j)
                           => \/ \E i \in 1 .. Len(last'.events) :
                                    /\ last'.events[i].playlist = p
                                    /\ last'.events[i].idx = j
                              \/ \E i \in 1 .. Len(last'.unresolved) :
                                    /\ last'.unresolved[i].playlist = p
                                    /\ last'.unresolved[i].idx = j]_vars

\* a pass in which "Skip" was answered for one line and the prompt for the
\* next line was cancelled
SkippedThenCancelled ==
    /\ Len(Events) = 2
    /\ Events[1].answer = "Skip" /\ Events[2].answer = "Cancel"
    /\ Events[1].playlist = Events[2].playlist
    /\ Events[1].idx < Events[2].idx

\* a pass that met a broken reference with no track in the catalog
NoCandidate ==
    /\ last.op = "index_playlists" /\ ~last.aborted
    /\ tracks = << >> /\ last.unresolved # << >>

(***************************************************************************)
(* Durations                                                               *)
(***************************************************************************)
\* the seconds a probe of the file at the path finds, 0 when it fails
ProbeOf(path) ==
    IF Resolve(path) \in DOMAIN fs THEN fs[Resolve(path)].secs ELSE 0

\* C27. Duration back-fill: a stats pass changes the duration of a track only
\* when the stored duration is 0 and the probe returns a positive value, and
\* then sets it to the probed value, as a pass that ends well does for every
\* such track; no other field changes and no record is added or removed.
DurationBackfill ==
    last.op = "get_stats" =>
        /\ Len(tracks) = Len(last.preTracks)
        /\ \A i \in 1 .. Len(tracks) :
              LET old == last.preTracks[i]
                  new == tracks[i]
              IN  /\ [new EXCEPT !.duration = old.duration] = old
                  /\ new.duration # old.duration
                        => /\ old.duration = 0
                           /\ ProbeOf(old.path) > 0
                           /\ new.duration = ProbeOf(old.path)
                  /\ (last.fatal = "none" /\ old.duration = 0
                            /\ ProbeOf(old.path) > 0)
                        => new.duration = ProbeOf(old.path)

\* a stats pass over a track whose stored duration is not what a probe would
\* find now, and a track whose probe fails
StatsOverStored ==
    /\ last.op = "get_stats" /\ last.fatal = "none"
    /\ \E i \in 1 .. Len(last.preTracks) :
          /\ last.preTracks[i].duration # 0
          /\ ProbeOf(last.preTracks[i].path) # last.preTracks[i].duration
    /\ \E i \in 1 .. Len(last.preTracks) :
          /\ last.preTracks[i].duration = 0
          /\ ProbeOf(last.preTracks[i].path) = 0

\* a stats pass that stored the duration of a track
Backfilled ==
    /\ last.op = "get_stats"
    /\ \E i \in 1 .. Len(tracks) : tracks[i].duration # last.preTracks[i].duration

=============================================================================
